---------------------------- MODULE Spec2Model ----------------------------
(***************************************************************************)
(* Model of the queue handler (consumer) and of the Editor component's     *)
(* run / register operations of queryapi.                                  *)
(*                                                                         *)
(* Strings that the code inspects or rewrites character by character are   *)
(* sequences of one-character (or one-token) strings, so that indexOf,     *)
(* concat, replace and replaceAll are computed as the code computes them.  *)
(***************************************************************************)
EXTENDS Integers, Sequences, FiniteSets, TLC

\* ------------------------------------------------------------------ bounds
\* Longest batch (event.Records) handed to one consumer execution.
MaxBatch == 3
\* Longest batch when two consumer executions run side by side.
MaxConcurrentBatch == 1
\* Most executeIndexerFunction calls made, over all mounted Editors.
MaxRuns == 2
\* Most registerFunction calls made in one Editor.
MaxRegisters == 2
\* Most times Proceed is pressed in the validation-error modal.
MaxProceeds == 1

\* ----------------------------------------------------------- queue records
\* The legacy direct-storage-access marker, as tokens of the code text.
LegacyMarker == <<"context", ".", "db">>

\* String.prototype.indexOf: the 0-based position of the first occurrence
\* of pat in s, or -1.
IndexOfStrict(s, pat) ==
  LET hits == { i \in 1..(Len(s) - Len(pat)) :
                  SubSeq(s, i + 1, i + Len(pat)) = pat }
  IN IF hits = {} THEN -1 ELSE CHOOSE i \in hits : \A j \in hits : i <= j

IndexOf(s, pat) ==
  LET hits == { i \in 0..(Len(s) - Len(pat)) :
                  SubSeq(s, i + 1, i + Len(pat)) = pat }
  IN IF hits = {} THEN -1 ELSE CHOOSE i \in hits : \A j \in hits : i <= j

FnA == [account_id |-> <<"a">>, function_name |-> <<"f">>, code |-> <<"x">>]
FnB == [account_id |-> <<"b">>, function_name |-> <<"g">>,
        code |-> <<"context", ".", "x">>]
FnLegacy0 == [account_id |-> <<"a">>, function_name |-> <<"f">>,
              code |-> <<"context", ".", "db">>]
FnLegacy1 == [account_id |-> <<"b">>, function_name |-> <<"g">>,
              code |-> <<"x", "context", ".", "db", "x">>]
FnNoCode == [account_id |-> <<"a">>, function_name |-> <<"f">>]

\* A record body is a string; valid says whether it is JSON text, and json
\* is the value it encodes.
Body(json) == [valid |-> TRUE, json |-> json]
Msg(h, hist, fn) ==
  [body |-> Body([block_height |-> h, is_historical |-> hist,
                  indexer_function |-> fn])]

RecNotJson == [body |-> [valid |-> FALSE]]
RecNoFunction == [body |-> Body([block_height |-> 1, is_historical |-> FALSE])]
RecNoCode == Msg(1, FALSE, FnNoCode)

WellFormedRecords ==
  { Msg(1, FALSE, FnA), Msg(2, TRUE, FnB),
    Msg(1, FALSE, FnLegacy0), Msg(2, TRUE, FnLegacy1) }
MalformedRecords == { RecNotJson, RecNoFunction, RecNoCode }
Records == WellFormedRecords \cup MalformedRecords

Batches(n) == UNION { [1..k -> Records] : k \in 0..n }

\* JSON.parse: the value, or a SyntaxError.
JSONparse(body) ==
  IF body.valid THEN [ok |-> TRUE, value |-> body.json] ELSE [ok |-> FALSE]

EmptyMap == [k \in {} |-> FnA]
Put(m, k, v) == [x \in (DOMAIN m) \cup {k} |-> IF x = k THEN v ELSE m[x]]

\* `const functions = {}` at the top of each iteration; old is the map the
\* previous iteration built.
NewFunctionsLeftover(old) == old

NewFunctions(old) == EmptyMap

\* function_config.account_id + '/' + function_config.function_name
FunctionKey(function_config) ==
  function_config.account_id \o <<"/">> \o function_config.function_name

RunOptions == [imperative |-> TRUE, provision |-> TRUE]

\* The outcome of one loop iteration up to its await: the iteration throws
\* (nothing catches it), skips the record, or calls indexer.runFunctions.
HandleRecord(record, functions) ==
  LET parsed == JSONparse(record.body) IN
  IF ~parsed.ok THEN [kind |-> "throw", error |-> "SyntaxError"]
  ELSE LET jsonBody == parsed.value IN
    IF "indexer_function" \notin DOMAIN jsonBody
    THEN [kind |-> "throw", error |-> "TypeError"]
    ELSE LET function_config == jsonBody.indexer_function IN
      IF "code" \notin DOMAIN function_config
      THEN [kind |-> "throw", error |-> "TypeError"]
      ELSE IF IndexOf(function_config.code, LegacyMarker) >= 0
      THEN [kind |-> "skip"]
      ELSE [kind |-> "call",
            block_height |-> jsonBody.block_height,
            functions |-> Put(NewFunctions(functions),
                              FunctionKey(function_config), function_config),
            is_historical |-> jsonBody.is_historical,
            options |-> RunOptions]

\* How indexer.runFunctions can settle: it resolves, or it rejects because
\* the user code failed or because provisioning failed (only when asked to
\* provision).
RunOutcomes(options) ==
  {"resolved", "UserCodeFailed"} \cup
  (IF options.provision THEN {"ProvisioningFailed"} ELSE {})

\* -------------------------------------------------------- Editor: values
\* JavaScript values that the Editor tells apart.
JsUndefined == [type |-> "undefined"]
JsNull == [type |-> "null"]
JsNum(n) == [type |-> "number", value |-> n]

\* Number(v) for null and for numbers.
Number(v) == IF v.type = "number" THEN v.value ELSE 0

\* if (v): neither null, undefined nor 0.
Truthy(v) == v.type = "number" /\ v.value # 0

AlphaNumeric ==
  { "a", "b", "c", "d", "e", "f", "g", "h", "i", "j", "k", "l", "m",
    "n", "o", "p", "q", "r", "s", "t", "u", "v", "w", "x", "y", "z",
    "A", "B", "C", "D", "E", "F", "G", "H", "I", "J", "K", "L", "M",
    "N", "O", "P", "Q", "R", "S", "T", "U", "V", "W", "X", "Y", "Z",
    "0", "1", "2", "3", "4", "5", "6", "7", "8", "9" }

\* s.replace(/[^a-zA-Z0-9]/g, '_')
ReplaceNonAlphaNumeric(s) ==
  [i \in 1..Len(s) |-> IF s[i] \in AlphaNumeric THEN s[i] ELSE "_"]

\* indexerDetails.accountId.concat("_", indexerDetails.indexerName)
\*   .replace(/[^a-zA-Z0-9]/g, '_')
SchemaName(details) ==
  ReplaceNonAlphaNumeric(details.accountId \o <<"_">> \o details.indexerName)

AccountIds == { <<"a", ".", "b">>, <<"a", "_", "b">>, <<"a">> }
IndexerNames == { <<"x">>, <<"b", "_", "x">> }
IndexerIds == [accountId : AccountIds, indexerName : IndexerNames]

\* Code texts as token sequences (white space is not a token).
CodeFlat == <<"async", "getBlock", "(", "block", ")", "{", "a", "}">>
CodeNested ==
  <<"getBlock", "(", ")", "{", "if", "{", "a", "}", "b", "}", "c">>
CodeNoGetBlock == <<"function", "f", "(", ")", "{", "a", "}">>
\* The codes typed into the editor, and those found saved in localStorage.
Codes == { CodeFlat, CodeNoGetBlock }
SavedCodes == Codes \cup { CodeNested }
Schemas == { "CREATE TABLE posts", "CREATE TABLE likes" }
HeightLists == { <<>>, <<3, 1, 3>> }

\* validateSQLSchema's error types.
FORMATTING_ERROR_TYPE == "FORMATTING_ERROR_TYPE"
TYPE_GENERATION_ERROR_TYPE == "TYPE_GENERATION_ERROR_TYPE"
SchemaErrors == { "none", FORMATTING_ERROR_TYPE, TYPE_GENERATION_ERROR_TYPE }

\* The names and the configuration typed into the publish modal.
NameArgs == { <<"f", "n">>, <<"m", "y", " ", "f", " ", "n">> }
ConfigArgs == { [startBlockHeight |-> 100, filter |-> "social.near"] }

First(ks) == CHOOSE k \in ks : \A m \in ks : k <= m
Last(ks) == CHOOSE k \in ks : \A m \in ks : k >= m

\* validatedCode.match(/getBlock\s*\([^)]*\)\s*{([\s\S]*)}/): the leftmost
\* getBlock ( ... ) { ... }, greedy telling which "}" ends it (the last
\* one for [\s\S]*, the first one for a lazy [\s\S]*?); then
\* [1], the tokens between the braces. A code without a match yields null,
\* and [1] of it throws.
Match(code, greedy) ==
  LET n == Len(code)
      close(i) == CHOOSE j \in (i + 2)..n :
                    code[j] = ")" /\ \A m \in (i + 2)..(j - 1) : code[m] # ")"
      starts == { i \in 1..n :
                    /\ code[i] = "getBlock"
                    /\ i + 1 <= n /\ code[i + 1] = "("
                    /\ \E j \in (i + 2)..n : code[j] = ")"
                    /\ close(i) + 1 <= n /\ code[close(i) + 1] = "{"
                    /\ \E k \in (close(i) + 2)..n : code[k] = "}" }
  IN IF starts = {} THEN [matched |-> FALSE]
     ELSE LET i == CHOOSE x \in starts : \A y \in starts : x <= y
              open == close(i) + 1
              ends == { k \in (open + 1)..n : code[k] = "}" }
          IN [matched |-> TRUE,
              inner |-> SubSeq(code, open + 1, (IF greedy THEN Last(ends) ELSE First(ends)) - 1)]

InnerCodeLazy(code) == Match(code, FALSE)

InnerCode(code) == Match(code, TRUE)

\* indexerName.replaceAll(" ", "_")
ReplaceFirstSpace(s) ==
  [i \in 1..Len(s) |->
     IF s[i] = " " /\ \A j \in 1..(i - 1) : s[j] # " " THEN "_" ELSE s[i]]

ReplaceAllSpaces(s) == [i \in 1..Len(s) |-> IF s[i] = " " THEN "_" ELSE s[i]]

\* The arguments executeIndexerFunction is called with; "<omitted>" and
\* JsUndefined stand for an argument left out.
OptionArgs == { "<omitted>", "debugList", "specific", "latest", "unknown" }
StartArgs == { JsUndefined, JsNull, JsNum(0), JsNum(7) }
\* The calls made: every starting height with "specific", none otherwise.
RunArgs ==
  { <<o, h>> \in OptionArgs \X StartArgs : o = "specific" \/ h = JsUndefined }
\* What getLatestBlockHeight resolves to; it may also reject.
LatestHeights == { JsUndefined, JsNum(0), JsNum(15) }

\* Default parameters: option = "latest", startingBlockHeight = null.
OptionOf(arg) == IF arg = "<omitted>" THEN "latest" ELSE arg
StartOf(arg) == IF arg = JsUndefined THEN JsNull ELSE arg

\* startingBlockHeight === null && Number(startingBlockHeight) === 0
InvalidStartEither(h) == h = JsNull \/ Number(h) = 0

InvalidStart(h) == h = JsNull /\ Number(h) = 0

\* latestHeight - 10
LatestStartNoOffset(latestHeight) == JsNum(latestHeight.value)

LatestStart(latestHeight) == JsNum(latestHeight.value - 10)

\* The heights handed to executeIndexerFunctionOnHeights.
RECURSIVE Insert(_, _)
Insert(x, sorted) ==
  IF sorted = <<>> THEN <<x>>
  ELSE IF x <= Head(sorted) THEN <<x>> \o sorted
  ELSE <<Head(sorted)>> \o Insert(x, Tail(sorted))

RECURSIVE Sorted(_)
Sorted(hs) == IF hs = <<>> THEN <<>> ELSE Insert(Head(hs), Sorted(Tail(hs)))

DebugHeightsSorted(hs) == Sorted(hs)

DebugHeights(hs) == hs

\* ------------------------------------------------------------------- state
VARIABLES
  event,      \* execution -> event.Records of that consumer execution
  idx,        \* execution -> position of the for-of loop (1-based)
  pc,         \* execution -> "loop" | "await" | "done" | "thrown"
  functions,  \* execution -> the functions map of the current iteration
  calls,      \* execution -> the runFunctions calls made, in order
  inflight,   \* execution -> positions whose runFunctions call is pending
  results,    \* execution -> <<position, outcome>> of the settled calls
  errors      \* execution -> what console.error logged, in order

consumerVars == <<event, idx, pc, functions, calls, inflight, results, errors>>

\* The Editor component; every variable maps a mounted Editor to its value.
VARIABLES
  indexerDetails,  \* [accountId, indexerName] from IndexerDetailsContext
  indexingCode,    \* useState: the code in the editor
  schema,          \* useState: the schema in the editor
  heights,         \* useState: the debug list
  isExecutingIndexerFunction,  \* useState
  runs,            \* the executeIndexerFunction calls made, in order
  runnerCalls      \* the IndexerRunner operations called, in order

runVars == <<indexerDetails, indexingCode, schema, heights,
             isExecutingIndexerFunction, runs, runnerCalls>>

VARIABLES
  showPublishModal,  \* IndexerDetailsContext: the publish modal is open
  modal,             \* useModal: [open, data] of the validation-error modal
  requests,          \* what request() sent, in order
  registerCalls      \* the registerFunction calls made, in order

registerVars == <<showPublishModal, modal, requests, registerCalls>>
editorVars == <<runVars, registerVars>>

vars == <<consumerVars, runVars, registerVars>>

Executions == DOMAIN event

InitConsumer(execs, n) ==
  /\ event \in [execs -> Batches(n)]
  /\ idx = [c \in execs |-> 1]
  /\ pc = [c \in execs |-> "loop"]
  /\ functions = [c \in execs |-> EmptyMap]
  /\ calls = [c \in execs |-> <<>>]
  /\ inflight = [c \in execs |-> {}]
  /\ results = [c \in execs |-> {}]
  /\ errors = [c \in execs |-> <<>>]

\* No Editor is mounted.
NoEditor ==
  /\ indexerDetails = <<>>
  /\ indexingCode = <<>>
  /\ schema = <<>>
  /\ heights = <<>>
  /\ isExecutingIndexerFunction = <<>>
  /\ runs = <<>>
  /\ runnerCalls = <<>>
  /\ showPublishModal = <<>>
  /\ modal = <<>>
  /\ requests = <<>>
  /\ registerCalls = <<>>

\* No consumer execution is under way.
NoConsumer == InitConsumer({}, 0)

\* Editors just mounted, for indexers among ids: the code and the schema
\* are the defaults or the ones saved in localStorage, the debug list is
\* the saved one or empty.
InitEditor(eds, ids, codes, schemas, lists) ==
  /\ indexerDetails \in [eds -> ids]
  /\ indexingCode \in [eds -> codes]
  /\ schema \in [eds -> schemas]
  /\ heights \in [eds -> lists]
  /\ isExecutingIndexerFunction = [e \in eds |-> FALSE]
  /\ runs = [e \in eds |-> <<>>]
  /\ runnerCalls = [e \in eds |-> <<>>]
  /\ showPublishModal = [e \in eds |-> TRUE]
  /\ modal = [e \in eds |-> [open |-> FALSE, call |-> 0]]
  /\ requests = [e \in eds |-> <<>>]
  /\ registerCalls = [e \in eds |-> <<>>]

Init == InitConsumer({"c1"}, MaxBatch) /\ NoEditor

InitConcurrent == InitConsumer({"c1", "c2"}, MaxConcurrentBatch) /\ NoEditor

Current(c) == event[c][idx[c]]
AtRecord(c) == pc[c] = "loop" /\ idx[c] <= Len(event[c])
Step(c) == HandleRecord(Current(c), functions[c])

\* An iteration throws outside the try block: the consumer rejects.
ConsumerThrow(c) ==
  /\ AtRecord(c)
  /\ Step(c).kind = "throw"
  /\ pc' = [pc EXCEPT ![c] = "thrown"]
  /\ functions' = [functions EXCEPT ![c] = NewFunctions(functions[c])]
  /\ UNCHANGED <<event, idx, calls, inflight, results, errors>>
  /\ UNCHANGED editorVars

\* `continue`: the record is passed over.
ConsumerSkip(c) ==
  /\ AtRecord(c)
  /\ Step(c).kind = "skip"
  /\ idx' = [idx EXCEPT ![c] = idx[c] + 1]
  /\ functions' = [functions EXCEPT ![c] = NewFunctions(functions[c])]
  /\ UNCHANGED <<event, pc, calls, inflight, results, errors>>
  /\ UNCHANGED editorVars

\* indexer.runFunctions is called; the consumer suspends on its promise.
ConsumerCall(c) ==
  /\ AtRecord(c)
  /\ Step(c).kind = "call"
  /\ LET s == Step(c) IN
       /\ functions' = [functions EXCEPT ![c] = s.functions]
       /\ calls' = [calls EXCEPT ![c] =
                      Append(calls[c],
                             [i |-> idx[c],
                              block_height |-> s.block_height,
                              functions |-> s.functions,
                              is_historical |-> s.is_historical,
                              options |-> s.options])]
  /\ inflight' = [inflight EXCEPT ![c] = inflight[c] \cup {idx[c]}]
  /\ pc' = [pc EXCEPT ![c] = "await"]
  /\ UNCHANGED <<event, idx, results, errors>>
  /\ UNCHANGED editorVars

CallAt(c, i) == CHOOSE k \in { calls[c][n] : n \in 1..Len(calls[c]) } : k.i = i

\* The Function Runner returns: a pending call resolves or rejects.
RunSettle(c) ==
  /\ \E i \in inflight[c] :
       \E o \in RunOutcomes(CallAt(c, i).options) :
         /\ inflight' = [inflight EXCEPT ![c] = inflight[c] \ {i}]
         /\ results' = [results EXCEPT ![c] = results[c] \cup {<<i, o>>}]
  /\ UNCHANGED <<event, idx, pc, functions, calls, errors>>
  /\ UNCHANGED editorVars

\* `await`: the consumer goes on only once the promise it waits for settled.
AwaitedNoWait(c) == TRUE

Awaited(c) == idx[c] \notin inflight[c]

\* The catch block, for a rejection e of the awaited call.
CatchRethrows(c, e) ==
  /\ pc' = [pc EXCEPT ![c] = "thrown"]
  /\ UNCHANGED <<idx, errors>>

Catch(c, e) ==
  /\ errors' = [errors EXCEPT ![c] =
                  Append(errors[c], [i |-> idx[c], error |-> e])]
  /\ idx' = [idx EXCEPT ![c] = idx[c] + 1]
  /\ pc' = [pc EXCEPT ![c] = "loop"]

\* The consumer resumes after the await: into the catch block on a
\* rejection, to the next iteration otherwise.
ConsumerResume(c) ==
  /\ pc[c] = "await"
  /\ Awaited(c)
  /\ LET rejected == { r \in results[c] : r[1] = idx[c] /\ r[2] # "resolved" }
     IN IF rejected # {}
        THEN Catch(c, (CHOOSE r \in rejected : TRUE)[2])
        ELSE /\ idx' = [idx EXCEPT ![c] = idx[c] + 1]
             /\ pc' = [pc EXCEPT ![c] = "loop"]
             /\ UNCHANGED errors
  /\ UNCHANGED <<event, functions, calls, inflight, results>>
  /\ UNCHANGED editorVars

\* The loop is over: the consumer's promise resolves, and the batch is
\* acknowledged.
ConsumerReturn(c) ==
  /\ pc[c] = "loop"
  /\ idx[c] > Len(event[c])
  /\ pc' = [pc EXCEPT ![c] = "done"]
  /\ UNCHANGED <<event, idx, functions, calls, inflight, results, errors>>
  /\ UNCHANGED editorVars

\* --------------------------------------------------------- Editor: runs
Editors == DOMAIN indexerDetails

RECURSIVE RunsOf(_)
RunsOf(eds) ==
  IF eds = {} THEN 0
  ELSE LET e == CHOOSE x \in eds : TRUE
       IN Len(runs[e]) + RunsOf(eds \ {e})

TotalRuns == RunsOf(Editors)

SetStage(e, k, stage) == [runs EXCEPT ![e][k].stage = stage]
SetExecuting(e, b) == [isExecutingIndexerFunction EXCEPT ![e] = b]

\* executeIndexerFunction up to its first suspension: the runner operation
\* of the option is called with the values of the render the function
\* belongs to, or the function ends at once.
ExecuteIndexerFunction(e, optionArg, startArg) ==
  /\ TotalRuns < MaxRuns
  /\ LET option == OptionOf(optionArg)
         startingBlockHeight == StartOf(startArg)
         schemaName == SchemaName(indexerDetails[e])
         k == Len(runs[e]) + 1
         run(stage) ==
           [option |-> option,
            startingBlockHeight |-> startingBlockHeight,
            heights |-> heights[e],
            indexingCode |-> indexingCode[e],
            schema |-> schema[e],
            schemaName |-> schemaName,
            latestHeight |-> JsUndefined,
            stage |-> stage]
         call(op, arg) ==
           [by |-> k, op |-> op, arg |-> arg,
            indexingCode |-> indexingCode[e],
            schema |-> schema[e],
            schemaName |-> schemaName,
            option |-> option]
         begun(stage) == [runs EXCEPT ![e] = Append(runs[e], run(stage))]
         called(op, arg) ==
           [runnerCalls EXCEPT ![e] = Append(runnerCalls[e], call(op, arg))]
     IN CASE option = "debugList" ->
               /\ runs' = begun("runner")
               /\ runnerCalls' =
                    called("executeIndexerFunctionOnHeights",
                           DebugHeights(heights[e]))
               /\ isExecutingIndexerFunction' = SetExecuting(e, TRUE)
          [] option = "specific" /\ InvalidStart(startingBlockHeight) ->
               /\ runs' = begun("ended")
               /\ isExecutingIndexerFunction' = SetExecuting(e, FALSE)
               /\ UNCHANGED runnerCalls
          [] option = "specific" /\ ~InvalidStart(startingBlockHeight) ->
               /\ runs' = begun("runner")
               /\ runnerCalls' = called("start", startingBlockHeight)
               /\ isExecutingIndexerFunction' = SetExecuting(e, TRUE)
          [] option = "latest" ->
               /\ runs' = begun("latest")
               /\ isExecutingIndexerFunction' = SetExecuting(e, TRUE)
               /\ UNCHANGED runnerCalls
          [] OTHER ->
               /\ runs' = begun("ended")
               /\ isExecutingIndexerFunction' = SetExecuting(e, FALSE)
               /\ UNCHANGED runnerCalls
  /\ UNCHANGED <<indexerDetails, indexingCode, schema, heights>>
  /\ UNCHANGED <<consumerVars, registerVars>>

\* getLatestBlockHeight resolves with latestHeight: the runner is started
\* ten blocks back when the height is truthy, and the function ends.
LatestResolves(e, k, latestHeight) ==
  /\ runs[e][k].stage = "latest"
  /\ IF Truthy(latestHeight)
     THEN /\ runnerCalls' =
               [runnerCalls EXCEPT ![e] =
                  Append(runnerCalls[e],
                         [by |-> k, op |-> "start",
                          arg |-> LatestStart(latestHeight),
                          indexingCode |-> runs[e][k].indexingCode,
                          schema |-> runs[e][k].schema,
                          schemaName |-> runs[e][k].schemaName,
                          option |-> runs[e][k].option])]
          /\ runs' = [runs EXCEPT ![e][k].stage = "runner",
                                   ![e][k].latestHeight = latestHeight]
          /\ UNCHANGED isExecutingIndexerFunction
     ELSE /\ runs' = [runs EXCEPT ![e][k].stage = "ended",
                                   ![e][k].latestHeight = latestHeight]
          /\ isExecutingIndexerFunction' = SetExecuting(e, FALSE)
          /\ UNCHANGED runnerCalls
  /\ UNCHANGED <<indexerDetails, indexingCode, schema, heights>>
  /\ UNCHANGED <<consumerVars, registerVars>>

\* getLatestBlockHeight rejects: executeIndexerFunction rejects with it.
LatestRejects(e, k) ==
  /\ runs[e][k].stage = "latest"
  /\ runs' = SetStage(e, k, "failed")
  /\ UNCHANGED <<indexerDetails, indexingCode, schema, heights,
                 isExecutingIndexerFunction, runnerCalls>>
  /\ UNCHANGED <<consumerVars, registerVars>>

\* The awaited runner operation resolves: setIsExecutingIndexerFunction
\* (() => false).
RunnerResolves(e, k) ==
  /\ runs[e][k].stage = "runner"
  /\ runs' = SetStage(e, k, "ended")
  /\ isExecutingIndexerFunction' = SetExecuting(e, FALSE)
  /\ UNCHANGED <<indexerDetails, indexingCode, schema, heights, runnerCalls>>
  /\ UNCHANGED <<consumerVars, registerVars>>

\* The awaited runner operation rejects: executeIndexerFunction rejects.
RunnerRejects(e, k) ==
  /\ runs[e][k].stage = "runner"
  /\ runs' = SetStage(e, k, "failed")
  /\ UNCHANGED <<indexerDetails, indexingCode, schema, heights,
                 isExecutingIndexerFunction, runnerCalls>>
  /\ UNCHANGED <<consumerVars, registerVars>>

\* handleOnChangeCode: the code in the editor changes.
HandleOnChangeCode(e, code) ==
  /\ indexingCode' = [indexingCode EXCEPT ![e] = code]
  /\ UNCHANGED <<indexerDetails, schema, heights,
                 isExecutingIndexerFunction, runs, runnerCalls>>
  /\ UNCHANGED <<consumerVars, registerVars>>

RunIds(e) == 1..Len(runs[e])

NextRunner ==
  \/ \E e \in Editors, a \in RunArgs :
       ExecuteIndexerFunction(e, a[1], a[2])
  \/ \E e \in Editors : \E k \in RunIds(e), h \in LatestHeights :
       LatestResolves(e, k, h)
  \/ \E e \in Editors : \E k \in RunIds(e) : LatestRejects(e, k)
  \/ \E e \in Editors : \E k \in RunIds(e) : RunnerResolves(e, k)
  \/ \E e \in Editors : \E k \in RunIds(e) : RunnerRejects(e, k)

NextRun ==
  \/ NextRunner
  \/ \E e \in Editors, code \in Codes : HandleOnChangeCode(e, code)

\* ------------------------------------------------------ Editor: register
\* What validateJSCode and validateSQLSchema hand back as data: the text
\* formatted, which as a token sequence is the text itself.
ValidatedCode(e) == indexingCode[e]
ValidatedSchema(e) == schema[e]

\* The request registerFunction builds.
RegisterArgs(e, indexerName, indexerConfig) ==
  [indexerName |-> ReplaceAllSpaces(indexerName),
   code |-> InnerCode(ValidatedCode(e)).inner,
   schema |-> ValidatedSchema(e),
   blockHeight |-> indexerConfig.startBlockHeight,
   contractFilter |-> indexerConfig.filter]

\* How registerFunction ends, given what the two validators report: it
\* returns early on an error, throws when the code holds no getBlock
\* function, shows the validation-error modal, or sends the request.
RegisterOutcomeNoSchemaCheck(codeError, matched, schemaError) ==
  IF codeError THEN "codeError"
  ELSE IF ~matched THEN "throws"
  ELSE IF schemaError = TYPE_GENERATION_ERROR_TYPE THEN "modal"
  ELSE "request"

RegisterOutcome(codeError, matched, schemaError) ==
  IF codeError THEN "codeError"
  ELSE IF ~matched THEN "throws"
  ELSE IF schemaError = FORMATTING_ERROR_TYPE THEN "schemaError"
  ELSE IF schemaError = TYPE_GENERATION_ERROR_TYPE THEN "modal"
  ELSE "request"

\* registerFunction, called from the open publish modal.
RegisterFunction(e, indexerName, indexerConfig, codeError, schemaError) ==
  /\ showPublishModal[e]
  /\ Len(registerCalls[e]) < MaxRegisters
  /\ LET n == Len(registerCalls[e]) + 1
         outcome == RegisterOutcome(codeError,
                                    InnerCode(ValidatedCode(e)).matched,
                                    schemaError)
     IN /\ registerCalls' =
             [registerCalls EXCEPT ![e] =
                Append(registerCalls[e],
                       [indexerName |-> indexerName,
                        indexerConfig |-> indexerConfig,
                        indexingCode |-> indexingCode[e],
                        schema |-> schema[e],
                        codeError |-> codeError,
                        schemaError |-> schemaError])]
        /\ CASE outcome = "modal" ->
                  /\ modal' =
                       [modal EXCEPT ![e] =
                          [open |-> TRUE, call |-> n,
                           data |-> RegisterArgs(e, indexerName, indexerConfig)]]
                  /\ UNCHANGED <<requests, showPublishModal>>
             [] outcome = "request" ->
                  /\ requests' =
                       [requests EXCEPT ![e] =
                          Append(requests[e],
                                 [type |-> "register-function",
                                  args |-> RegisterArgs(e, indexerName,
                                                        indexerConfig),
                                  via |-> "registerFunction", call |-> n])]
                  /\ showPublishModal' = [showPublishModal EXCEPT ![e] = FALSE]
                  /\ UNCHANGED modal
             [] OTHER -> UNCHANGED <<requests, showPublishModal, modal>>
  /\ UNCHANGED <<consumerVars, runVars>>

Proceeds(e) ==
  Cardinality({ n \in 1..Len(requests[e]) : requests[e][n].via = "modal" })

\* Proceed in the validation-error modal:
\* handleRegisterIndexerWithErrors(data).
HandleRegisterIndexerWithErrors(e) ==
  /\ modal[e].open
  /\ Proceeds(e) < MaxProceeds
  /\ requests' =
       [requests EXCEPT ![e] =
          Append(requests[e],
                 [type |-> "register-function", args |-> modal[e].data,
                  via |-> "modal", call |-> modal[e].call])]
  /\ UNCHANGED <<showPublishModal, modal, registerCalls>>
  /\ UNCHANGED <<consumerVars, runVars>>

\* Cancel or close in the validation-error modal: hideModal.
HideModal(e) ==
  /\ modal[e].open
  /\ modal' = [modal EXCEPT ![e].open = FALSE]
  /\ UNCHANGED <<showPublishModal, requests, registerCalls>>
  /\ UNCHANGED <<consumerVars, runVars>>

NextRegister ==
  \/ \E e \in Editors, nm \in NameArgs, cfg \in ConfigArgs,
        ce \in BOOLEAN, se \in SchemaErrors :
       RegisterFunction(e, nm, cfg, ce, se)
  \/ \E e \in Editors : HandleRegisterIndexerWithErrors(e)
  \/ \E e \in Editors : HideModal(e)
  \/ \E e \in Editors, code \in Codes : HandleOnChangeCode(e, code)

Next ==
  \/ \E c \in Executions : ConsumerThrow(c)
  \/ \E c \in Executions : ConsumerSkip(c)
  \/ \E c \in Executions : ConsumerCall(c)
  \/ \E c \in Executions : RunSettle(c)
  \/ \E c \in Executions : ConsumerResume(c)
  \/ \E c \in Executions : ConsumerReturn(c)

Spec == Init /\ [][Next]_vars

SpecConcurrent == InitConcurrent /\ [][Next]_vars

\* One Editor, run and edited.
InitRun ==
  /\ NoConsumer
  /\ InitEditor({"e1"},
                { [accountId |-> <<"a", ".", "b">>, indexerName |-> <<"x">>],
                  [accountId |-> <<"a">>, indexerName |-> <<"b", "_", "x">>] },
                Codes, Schemas, HeightLists)

SpecRun == InitRun /\ [][NextRun]_vars

\* One Editor, edited and published from.
InitRegister ==
  /\ NoConsumer
  /\ InitEditor({"e1"},
                { [accountId |-> <<"a", ".", "b">>, indexerName |-> <<"x">>] },
                SavedCodes, Schemas, {<<>>})

SpecRegister == InitRegister /\ [][NextRegister]_vars

\* Two Editors, of two indexers, each running its indexer function.
InitNamespace ==
  /\ NoConsumer
  /\ InitEditor({"e1", "e2"}, IndexerIds,
                {CodeFlat}, {"CREATE TABLE posts"}, {<<>>})

SpecNamespace == InitNamespace /\ [][NextRunner]_vars

\* ------------------------------------------------- queue handler: claims
\* What a record is, read off the message itself.
Parses(r) == r.body.valid
HasFunction(r) == Parses(r) /\ "indexer_function" \in DOMAIN r.body.json
HasCode(r) == HasFunction(r) /\ "code" \in DOMAIN r.body.json.indexer_function
WellFormed(r) == HasCode(r)
CodeOf(r) == r.body.json.indexer_function.code
HasMarker(r) ==
  /\ WellFormed(r)
  /\ \E i \in 1..Len(CodeOf(r)) :
       /\ i + 2 <= Len(CodeOf(r))
       /\ CodeOf(r)[i] = "context"
       /\ CodeOf(r)[i + 1] = "."
       /\ CodeOf(r)[i + 2] = "db"
Runnable(r) == WellFormed(r) /\ ~HasMarker(r)
Positions(c) == 1..Len(event[c])
CalledAt(c, i) == \E n \in 1..Len(calls[c]) : calls[c][n].i = i
Acknowledged(c) == pc[c] = "done"

C2_RunErrorsContained ==
  \A c \in Executions :
    /\ \A r \in results[c] :
         (r[2] # "resolved" /\ (idx[c] > r[1] \/ pc[c] \in {"done", "thrown"})) =>
           \E n \in 1..Len(errors[c]) :
             errors[c][n] = [i |-> r[1], error |-> r[2]]
    /\ pc[c] = "thrown" =>
         /\ idx[c] \in Positions(c)
         /\ ~WellFormed(event[c][idx[c]])
    /\ Acknowledged(c) =>
         \A i \in Positions(c) : Runnable(event[c][i]) => CalledAt(c, i)

\* The first record's run was rejected and a later record of another
\* indexer was still run before the consumer returned.
C2_Witness ==
  \E c \in Executions :
    /\ Acknowledged(c)
    /\ errors[c] # <<>>
    /\ errors[c][1].i = 1
    /\ \E n \in 1..Len(calls[c]) :
         /\ calls[c][n].i > 1
         /\ DOMAIN calls[c][n].functions # DOMAIN calls[c][1].functions

\* C3: a malformed queue message (a body that is not JSON, or that lacks
\* indexer_function or indexer_function.code) never makes the consumer
\* throw.
C3_MalformedNeverThrows ==
  \A c \in Executions : pc[c] # "thrown"

\* C4: a batch holding a record whose run failed in provisioning is never
\* acknowledged.
C4_ProvisioningFailureNotAcknowledged ==
  \A c \in Executions :
    Acknowledged(c) =>
      \A r \in results[c] : r[2] # "ProvisioningFailed"

\* C5: the batch is acknowledged only after the runFunctions call of every
\* runnable record has been made and has settled: no call is pending, and
\* each runnable record has a result.
C5_AckAfterRunnerReturned ==
  \A c \in Executions :
    Acknowledged(c) =>
      /\ inflight[c] = {}
      /\ \A i \in Positions(c) :
           Runnable(event[c][i]) =>
             CalledAt(c, i) /\ \E r \in results[c] : r[1] = i

\* An acknowledged batch with two settled runs.
C5_Witness ==
  \E c \in Executions :
    /\ Acknowledged(c)
    /\ Cardinality({ r[1] : r \in results[c] }) >= 2

\* C6: there are never two runFunctions invocations in flight for the
\* same (account_id, function_name).
C6_OneRunPerIndexerInFlight ==
  \A c, d \in Executions :
    \A i \in inflight[c], j \in inflight[d] :
      (<<c, i>> # <<d, j>>) =>
        DOMAIN CallAt(c, i).functions # DOMAIN CallAt(d, j).functions

\* The call the code is to make for record i of a batch.
ExpectedCall(batch, i) ==
  LET json == batch[i].body.json
      cfg == json.indexer_function
      key == cfg.account_id \o <<"/">> \o cfg.function_name
  IN [i |-> i,
      block_height |-> json.block_height,
      functions |-> [k \in {key} |-> cfg],
      is_historical |-> json.is_historical,
      options |-> [imperative |-> TRUE, provision |-> TRUE]]

RECURSIVE ExpectedCalls(_, _)
ExpectedCalls(batch, n) ==
  IF n = 0 THEN <<>>
  ELSE IF Runnable(batch[n])
       THEN Append(ExpectedCalls(batch, n - 1), ExpectedCall(batch, n))
       ELSE ExpectedCalls(batch, n - 1)

\* The records the loop has gone through or is suspended on.
Reached(c) ==
  IF pc[c] = "await" THEN idx[c] ELSE idx[c] - 1

\* C10: for a batch of well-formed records, the runFunctions calls made
\* are exactly those of the records without the legacy marker, in batch
\* order, one per record, each with that record's block_height and
\* is_historical, a function map with the one entry account_id + '/' +
\* function_name, and the flags imperative and provision.
C10_CallsAreRunnableRecordsInOrder ==
  \A c \in Executions :
    (\A i \in Positions(c) : WellFormed(event[c][i])) =>
      calls[c] = ExpectedCalls(event[c], Reached(c))

\* A returned consumer that ran two different indexers around a legacy
\* record.
C10_Witness ==
  \E c \in Executions :
    /\ Acknowledged(c)
    /\ \A i \in Positions(c) : WellFormed(event[c][i])
    /\ Len(calls[c]) = 2
    /\ DOMAIN calls[c][1].functions # DOMAIN calls[c][2].functions
    /\ \E i \in Positions(c) : HasMarker(event[c][i])

\* ---------------------------------------------------------- Editor: claims
CallIds(e) == 1..Len(runnerCalls[e])
CallsBy(e, k) == { n \in CallIds(e) : runnerCalls[e][n].by = k }

\* C7: two Editors of different (accountId, indexerName) never start the
\* runner on the same namespace name.
C7_NamespacesDistinct ==
  \A e1, e2 \in Editors :
    indexerDetails[e1] # indexerDetails[e2] =>
      \A n1 \in CallIds(e1), n2 \in CallIds(e2) :
        runnerCalls[e1][n1].schemaName # runnerCalls[e2][n2].schemaName

\* name is accountId, "_" and indexerName joined, with every character
\* that is no letter and no digit turned into "_".
IsNamespaceOf(name, details) ==
  LET raw == details.accountId \o <<"_">> \o details.indexerName IN
  /\ Len(name) = Len(raw)
  /\ \A i \in 1..Len(raw) :
       IF \E ch \in AlphaNumeric : ch = raw[i]
       THEN name[i] = raw[i]
       ELSE name[i] = "_"

\* The call passes the code and the schema the editor held when
\* executeIndexerFunction was called, and the namespace name of its indexer.
PassesEditorValues(e, k, c) ==
  /\ c.indexingCode = runs[e][k].indexingCode
  /\ c.schema = runs[e][k].schema
  /\ c.option = runs[e][k].option
  /\ IsNamespaceOf(c.schemaName, indexerDetails[e])

\* Run k made exactly the one runner call op(arg).
OneCall(e, k, op, arg) ==
  /\ Cardinality(CallsBy(e, k)) = 1
  /\ \A n \in CallsBy(e, k) :
       /\ runnerCalls[e][n].op = op
       /\ runnerCalls[e][n].arg = arg
       /\ PassesEditorValues(e, k, runnerCalls[e][n])
NoCall(e, k) == CallsBy(e, k) = {}

DebugListRule(e, k) ==
  OneCall(e, k, "executeIndexerFunctionOnHeights", runs[e][k].heights)
LatestRule(e, k) ==
  IF runs[e][k].stage # "latest" /\ Truthy(runs[e][k].latestHeight)
  THEN OneCall(e, k, "start", JsNum(runs[e][k].latestHeight.value - 10))
  ELSE NoCall(e, k)
SpecificAlways(e, k) ==
  OneCall(e, k, "start", runs[e][k].startingBlockHeight)
SpecificUnlessNull(e, k) ==
  IF runs[e][k].startingBlockHeight.type = "null"
  THEN NoCall(e, k)
  ELSE OneCall(e, k, "start", runs[e][k].startingBlockHeight)

RequestIds(e) == 1..Len(requests[e])
RegisterFields ==
  { "indexerName", "code", "schema", "blockHeight", "contractFilter" }

\* The text between the braces of the getBlock function of a code.
ExpectedInner(code) ==
  CASE code = CodeFlat -> <<"a">>
    [] code = CodeNested -> <<"if", "{", "a", "}", "b">>
    [] OTHER -> <<"<no getBlock function>">>

\* to is from with each space turned into "_".
SpacesReplaced(from, to) ==
  /\ Len(to) = Len(from)
  /\ \A i \in 1..Len(from) :
       IF from[i] = " " THEN to[i] = "_" ELSE to[i] = from[i]

\* The five fields, from the arguments and the editor contents of call c.
CarriesFieldsOf(args, c) ==
  /\ DOMAIN args = RegisterFields
  /\ SpacesReplaced(c.indexerName, args.indexerName)
  /\ args.code = ExpectedInner(c.indexingCode)
  /\ args.schema = c.schema
  /\ args.blockHeight = c.indexerConfig.startBlockHeight
  /\ args.contractFilter = c.indexerConfig.filter

\* C9: every request sent is a "register-function" request carrying
\* exactly the five fields of a registerFunction call whose code validation
\* reported no error and whose schema validation reported no formatting
\* error. registerFunction itself sends it (once, closing the publish
\* modal) only when the schema validation reported no type-generation
\* error either; after a type-generation error the request is sent only by
\* Proceed in the validation-error modal, with the fields shown to the
\* modal. A call with a code error or a schema formatting error sends
\* nothing and leaves the publish modal open.
C9_RegisterOnlyWhenValid ==
  \A e \in Editors :
    /\ \A n \in RequestIds(e) :
         LET r == requests[e][n]
             c == registerCalls[e][r.call]
         IN /\ r.type = "register-function"
            /\ CarriesFieldsOf(r.args, c)
            /\ ~c.codeError
            /\ c.schemaError # FORMATTING_ERROR_TYPE
            /\ r.via = "registerFunction" =>
                 c.schemaError # TYPE_GENERATION_ERROR_TYPE
            /\ r.via = "modal" =>
                 /\ c.schemaError = TYPE_GENERATION_ERROR_TYPE
                 /\ modal[e].call = r.call => r.args = modal[e].data
    /\ \A n, m \in RequestIds(e) :
         (/\ requests[e][n].via = "registerFunction"
          /\ requests[e][m].via = "registerFunction"
          /\ requests[e][n].call = requests[e][m].call) => n = m
    /\ modal[e].call # 0 =>
         /\ registerCalls[e][modal[e].call].schemaError
              = TYPE_GENERATION_ERROR_TYPE
         /\ CarriesFieldsOf(modal[e].data, registerCalls[e][modal[e].call])
    /\ ~showPublishModal[e] =>
         /\ registerCalls[e] # <<>>
         /\ \E n \in RequestIds(e) :
              /\ requests[e][n].via = "registerFunction"
              /\ requests[e][n].call = Len(registerCalls[e])

\* A call with a type-generation error was confirmed in the modal, and a
\* later call, of a name with spaces and a code with nested braces, sent
\* its request itself.
C9_Witness ==
  \E e \in Editors :
    /\ Len(requests[e]) = 2
    /\ requests[e][1].via = "modal"
    /\ requests[e][2].via = "registerFunction"
    /\ requests[e][2].args.indexerName = <<"m", "y", "_", "f", "_", "n">>
    /\ requests[e][2].args.code = <<"if", "{", "a", "}", "b">>

\* ------------------------------------------------------------ Claim C11
\* The starting height of run k is null or 0.
NullOrZero(e, k) ==
  \/ runs[e][k].startingBlockHeight.type = "null"
  \/ Number(runs[e][k].startingBlockHeight) = 0

\* C11: executeIndexerFunction with option "specific" treats a starting
\* block height that is null or 0 as invalid: such a call ends without
\* calling indexerRunner.start, and the runner is started, at the given
\* height, only for a starting height that is neither null nor 0.
C11_SpecificNullOrZeroInvalid ==
  \A e \in Editors : \A k \in RunIds(e) :
    runs[e][k].option = "specific" =>
      IF NullOrZero(e, k)
      THEN NoCall(e, k) /\ runs[e][k].stage = "ended"
      ELSE OneCall(e, k, "start", runs[e][k].startingBlockHeight)

\* ------------------------------------------------------------ Claim C12
\* Some executeIndexerFunction call of Editor e has begun and neither
\* ended nor failed.
InProgress(e) ==
  \E k \in RunIds(e) : runs[e][k].stage \in { "latest", "runner" }

\* The flag is never false while a call is still running.
FlagTrueWhileRunning(e) == InProgress(e) => isExecutingIndexerFunction[e]

\* The flag is false again once every call has ended, on every path.
FlagFalseAfterEveryEnd(e) == isExecutingIndexerFunction[e] => InProgress(e)

\* C12: the isExecutingIndexerFunction flag handed to EditorButtons is
\* true exactly while some executeIndexerFunction call is in progress: it
\* is false again after every call has ended, whether it returned or the
\* runner or the latest-height lookup failed, and under overlapping calls
\* it is never false while another call is still running.
C12_FlagTrueExactlyWhileRunning ==
  \A e \in Editors : FlagTrueWhileRunning(e) /\ FlagFalseAfterEveryEnd(e)

=============================================================================
